---- MODULE Spec2Model ----
(***************************************************************************)
(* The Primary of the Narwhal memory pool (node/narwhal/src/primary.rs):   *)
(* run's startup, the batch proposer and batch sealer loops, the five      *)
(* channel handlers and shut_down, as tasks of a multi-threaded runtime    *)
(* that interleave at every lock acquisition and every await.              *)
(***************************************************************************)
EXTENDS Integers, Sequences, FiniteSets, TLC

\* ------------------------------------------------------------------ bounds
\* The largest value of the compile-time constant MAX_WORKERS that is explored.
MaxWorkers == 2
\* The number of batches the proposer may construct.
MaxBatches == 2
\* The number of messages waiting on the five ingress channels, all together.
MaxBacklog == 2

\* ------------------------------------------------------------------ Option<T>
None == <<>>
Some(x) == <<x>>
IsSome(o) == o # <<>>
Unwrap(o) == o[1]

Range(s) == {s[i] : i \in 1..Len(s)}
SeqsUpTo(S, n) == UNION {[1..k -> S] : k \in 0..n}

\* ------------------------------------------------------------------ accounts
\* gateway.account().address()
LocalAddress == "addrA"
PeerIps == {"ipB", "ipC", "ipD"}
\* shared.get_address(&peer_ip): ipD is not in the directory.
GetAddress(peer_ip) ==
    CASE peer_ip = "ipB" -> Some("addrB")
      [] peer_ip = "ipC" -> Some("addrC")
      [] OTHER -> None
\* shared.is_committee_member(&address): addrC is known but not in the committee.
IsCommitteeMember(address) == address \in {"addrA", "addrB"}
\* account.sign(&[batch_id]) and signature.verify(&address, &[batch_id]).
Sign(address, batch_id) == [signer |-> address, msg |-> batch_id]
Verify(signature, address, batch_id) ==
    signature.signer = address /\ signature.msg = batch_id

\* ------------------------------------------------------------------ transmissions
TransactionIds == {[kind |-> "transaction", bytes |-> <<1, 0>>],
                   [kind |-> "transaction", bytes |-> <<2, 0>>]}
PuzzleCommitments == {[kind |-> "solution", bytes |-> <<0, 1>>]}
\* H(t): the leading bytes of the id read as an unsigned little-endian number.
Fingerprint(id) == id.bytes[1] + 256 * id.bytes[2]
\* assign_to_worker(id, num_workers): Err when there are no workers.
AssignToWorker(id, num_workers) ==
    IF num_workers = 0 THEN None ELSE Some(Fingerprint(id) % num_workers)

\* ------------------------------------------------------------------ batches
BatchIds == 1..MaxBatches
\* A batch id no local batch ever has (a peer's batch).
PeerBatchId == MaxBatches + 1
\* shared.previous_certificates(round).unwrap_or_default()
PreviousCertificates(round) == {}
\* Batch::new(private_key, round, transmissions, previous_certificates, rng)
BatchNew(batch_id, round, transmissions) ==
    [batch_id |-> batch_id, author |-> LocalAddress, round |-> round,
     transmissions |-> transmissions,
     previous_certificates |-> PreviousCertificates(round)]
\* batch.seal(signatures) and sealed_batch.certificate()
Seal(batch, signatures) == [batch |-> batch, signatures |-> signatures]
Certificate(sealed_batch) ==
    [batch_id |-> sealed_batch.batch.batch_id, signatures |-> sealed_batch.signatures]

\* ------------------------------------------------------------------ messages
\* What peers send on rx_batch_signature: ipB's signature over the batch id it names,
\* ipB's signature over another message, and the signatures of ipC and ipD.
BatchSignatureMsgs ==
    {[peer_ip |-> "ipB", batch_id |-> b, signature |-> Sign("addrB", b)] : b \in BatchIds}
    \cup {[peer_ip |-> "ipB", batch_id |-> 1, signature |-> Sign("addrB", PeerBatchId)],
          [peer_ip |-> "ipC", batch_id |-> 1, signature |-> Sign("addrC", 1)],
          [peer_ip |-> "ipD", batch_id |-> 1, signature |-> Sign("addrD", 1)]}
PeerBatch ==
    [batch_id |-> PeerBatchId, author |-> "addrB", round |-> 0,
     transmissions |-> {}, previous_certificates |-> {}]
\* Data<T>: deserialize() succeeds or fails.
BatchProposeMsgs ==
    {[peer_ip |-> "ipB", batch |-> PeerBatch, well_formed |-> w] : w \in BOOLEAN}
BatchSealedMsgs ==
    {[peer_ip |-> "ipB", certificate |-> Certificate(Seal(PeerBatch, <<>>)),
      well_formed |-> w] : w \in BOOLEAN}

\* ------------------------------------------------------------------ tasks
\* The tasks start_handlers spawns, in the order it spawns them.
SpawnOrder == <<"proposer", "sealer", "batch_propose", "batch_signature",
                "batch_sealed", "unconfirmed_solution", "unconfirmed_transaction">>
Tasks == Range(SpawnOrder)
\* The places where a task is suspended at an await (a task starts suspended).
AwaitPoints == {"start", "recv", "sleep", "deserialize", "process"}
\* Whoever takes a lock guard: the tasks, run and shut_down.
Actors == Tasks \cup {"run", "shut_down"}

\* ------------------------------------------------------------------ lock guards
\* A guard that is never dropped.
DropNever(held, guard) == held

\* RwLock::read() and RwLock::write() return a guard; a temporary guard is dropped at
\* the end of the statement, of the `if` condition or of the `if let` that took it.
Acquire(held, guard) == held \cup {guard}
Drop(held, guard) == held \ {guard}
\* A guard taken and dropped within one statement.
Scoped(held, guard) == Drop(Acquire(held, guard), guard)

VARIABLES
    MAX_WORKERS,        \* the compile-time constant of this build
    workers,            \* self.workers
    proposed_batch,     \* self.proposed_batch
    handles,            \* self.handles: the tasks spawned so far
    aborted,            \* the tasks whose handle was aborted
    pc,                 \* where each task is
    local,              \* each task's local variables
    next_batch_id,      \* the id of the next batch Batch::new returns
    round,              \* shared.round()
    primary_sender,     \* whether shared holds the primary sender
    proposed_batches,   \* shared: store_proposed_batch
    sealed_batches,     \* shared: store_sealed_batch
    sealed_from_primary,\* shared: store_sealed_batch_from_primary
    gateway,            \* "idle", "running" or "closed"
    tx_workers,         \* the worker senders handed to the gateway
    events,             \* the events passed to gateway.broadcast and gateway.send
    rx_batch_propose, rx_batch_signature, rx_batch_sealed,
    rx_unconfirmed_solution, rx_unconfirmed_transaction,
    run_pc,             \* where run is
    run_i,              \* run's loop counter
    shut_pc,            \* where shut_down is
    guards              \* the lock guards each task, run and shut_down hold

channels == <<rx_batch_propose, rx_batch_signature, rx_batch_sealed,
              rx_unconfirmed_solution, rx_unconfirmed_transaction>>
stores == <<proposed_batches, sealed_batches, sealed_from_primary>>
startup == <<MAX_WORKERS, tx_workers, run_pc, run_i, primary_sender>>
spawned == <<handles, aborted>>
vars == <<workers, proposed_batch, pc, local, next_batch_id, round, events, gateway,
          shut_pc, guards, channels, stores, startup, spawned>>

NoLocal == [batch |-> None, is_ready |-> FALSE, is_expired |-> FALSE,
            snapshot |-> None, sealed_batch |-> None, transmissions |-> {},
            drained |-> 0, msg |-> None, worker_id |-> None]

Init ==
    /\ MAX_WORKERS \in {0, MaxWorkers}
    /\ workers = <<>>
    /\ proposed_batch = None
    /\ handles = <<>>
    /\ aborted = {}
    /\ pc = [t \in Tasks |-> "start"]
    /\ local = [t \in Tasks |-> NoLocal]
    /\ next_batch_id = 1
    /\ round = 1
    /\ primary_sender = FALSE
    /\ proposed_batches = {}
    /\ sealed_batches = {}
    /\ sealed_from_primary = <<>>
    /\ gateway = "idle"
    /\ tx_workers = {}
    /\ events = <<>>
    /\ rx_batch_propose \in SeqsUpTo(BatchProposeMsgs, MaxBacklog)
    /\ rx_batch_signature \in SeqsUpTo(BatchSignatureMsgs, MaxBacklog)
    /\ rx_batch_sealed \in SeqsUpTo(BatchSealedMsgs, MaxBacklog)
    /\ rx_unconfirmed_solution \in SeqsUpTo(PuzzleCommitments, MaxBacklog)
    /\ rx_unconfirmed_transaction \in SeqsUpTo(TransactionIds, MaxBacklog)
    /\ Len(rx_batch_propose) + Len(rx_batch_signature) + Len(rx_batch_sealed)
         + Len(rx_unconfirmed_solution) + Len(rx_unconfirmed_transaction) <= MaxBacklog
    /\ run_pc = "init"
    /\ run_i = 0
    /\ shut_pc = "idle"
    /\ guards = [actor \in Actors |-> {}]

\* ------------------------------------------------------------------ run
\* self.shared.set_primary_sender(sender)
RunSetPrimarySender ==
    /\ run_pc = "init"
    /\ primary_sender' = TRUE
    /\ run_pc' = "workers"
    /\ UNCHANGED <<workers, proposed_batch, pc, local, next_batch_id, round, events,
                   gateway, shut_pc, guards, channels, stores, spawned,
                   MAX_WORKERS, tx_workers, run_i>>

\* Worker::new(id, gateway)
WorkerNew(id) == [id |-> id, transmissions |-> {}, running |-> TRUE]

\* A worker id that does not depend on the workers there are.
WorkerIdZero(ws) == 0

\* let id = u8::try_from(self.workers.read().len())?
WorkerId(ws) == Len(ws)

\* A write guard is granted when nobody else holds a guard of the lock.
CanWrite(actor, lock) ==
    \A other \in Actors \ {actor} :
        guards[other] \cap {<<lock, "read">>, <<lock, "write">>} = {}

\* One iteration of `for _ in 0..MAX_WORKERS`: the worker is constructed, run and pushed.
RunInitWorker ==
    /\ run_pc = "workers"
    /\ run_i < MAX_WORKERS
    /\ CanWrite("run", "workers")
    /\ LET id == WorkerId(workers) IN
        /\ workers' = Append(workers, WorkerNew(id))
        /\ tx_workers' = tx_workers \cup {id}
    /\ run_i' = run_i + 1
    /\ guards' = [guards EXCEPT !["run"] =
                     Scoped(Scoped(@, <<"workers", "read">>), <<"workers", "write">>)]
    /\ UNCHANGED <<proposed_batch, pc, local, next_batch_id, round, events, gateway,
                   shut_pc, channels, stores, spawned, MAX_WORKERS, run_pc,
                   primary_sender>>

\* Worker::new(..)? or worker.run(rx_worker).await? returns an error: run returns it.
RunInitWorkerFails ==
    /\ run_pc = "workers"
    /\ run_i < MAX_WORKERS
    /\ run_pc' = "failed"
    /\ guards' = [guards EXCEPT !["run"] = Scoped(@, <<"workers", "read">>)]
    /\ UNCHANGED <<workers, proposed_batch, pc, local, next_batch_id, round, events,
                   gateway, shut_pc, channels, stores, spawned,
                   MAX_WORKERS, tx_workers, run_i, primary_sender>>

\* self.gateway.run(tx_workers).await?: a gateway that was shut down stays closed.
RunGateway ==
    /\ run_pc = "workers"
    /\ run_i = MAX_WORKERS
    /\ \/ /\ gateway' = IF gateway = "closed" THEN "closed" ELSE "running"
          /\ run_pc' = "handlers"
       \/ gateway' = gateway /\ run_pc' = "failed"
    /\ UNCHANGED <<workers, proposed_batch, pc, local, next_batch_id, round, events,
                   shut_pc, guards, channels, stores, spawned,
                   MAX_WORKERS, tx_workers, run_i, primary_sender>>

\* self.spawn(future): self.handles.lock().push(tokio::spawn(future))
Spawn(task) == handles' = Append(handles, task)

\* start_handlers: the next task of SpawnOrder is spawned; run returns after the last.
RunStartHandlers ==
    /\ run_pc = "handlers"
    /\ Spawn(SpawnOrder[Len(handles) + 1])
    /\ run_pc' = IF Len(handles) + 1 = Len(SpawnOrder) THEN "done" ELSE "handlers"
    /\ UNCHANGED <<workers, proposed_batch, pc, local, next_batch_id, round, events,
                   gateway, shut_pc, guards, channels, stores, aborted,
                   MAX_WORKERS, tx_workers, run_i, primary_sender>>

\* A spawned task runs unless its handle was aborted while it is suspended at an await.
Runnable(task) ==
    /\ task \in Range(handles)
    /\ ~(task \in aborted /\ pc[task] \in AwaitPoints)

Goto(task, label) == pc' = [pc EXCEPT ![task] = label]

\* ------------------------------------------------------------------ proposer
\* A proposer that does not look at the cell.
ProposerSeesBatchNever(cell) == FALSE

\* self_clone.proposed_batch.read().is_some()
ProposerSeesBatch(cell) == IsSome(cell)

\* The head of the proposer's loop, after the initial sleep, a busy sleep or a
\* propose_batch that returned.
ProposerCheck ==
    /\ Runnable("proposer")
    /\ pc["proposer"] \in {"start", "sleep", "check"}
    /\ IF ProposerSeesBatch(proposed_batch)
         THEN Goto("proposer", "sleep")
         ELSE Goto("proposer", "drain")
    /\ guards' = [guards EXCEPT !["proposer"] = Scoped(@, <<"proposed_batch", "read">>)]
    /\ UNCHANGED <<workers, proposed_batch, local, next_batch_id, round, events, gateway,
                   shut_pc, channels, stores, startup, spawned>>

\* worker.drain(): the worker's transmissions are returned and the worker is emptied.
Drained(worker) == worker.transmissions
AfterDrain(worker) == [worker EXCEPT !.transmissions = {}]

\* One iteration of `for worker in self.workers.read().iter()`: the next worker is
\* drained into the map. The read guard is taken before the first iteration and
\* dropped after the last one; the handlers insert into a worker through their own
\* clone of its handle, without the lock.
ProposerDrainWorker ==
    /\ Runnable("proposer")
    /\ pc["proposer"] = "drain"
    /\ next_batch_id <= MaxBatches
    /\ local["proposer"].drained < Len(workers)
    /\ LET i == local["proposer"].drained + 1 IN
        /\ workers' = [workers EXCEPT ![i] = AfterDrain(@)]
        /\ local' = [local EXCEPT
                        !["proposer"].transmissions = @ \cup Drained(workers[i]),
                        !["proposer"].drained = i]
        /\ guards' = [guards EXCEPT !["proposer"] =
                         IF i = Len(workers)
                           THEN Drop(Acquire(@, <<"workers", "read">>),
                                     <<"workers", "read">>)
                           ELSE Acquire(@, <<"workers", "read">>)]
    /\ UNCHANGED <<proposed_batch, pc, next_batch_id, round, events, gateway, shut_pc,
                   channels, stores, startup, spawned>>

\* propose_batch after the loop, when Batch::new succeeds: the round is read and the
\* batch is signed over the drained transmissions.
ProposerDrainSigned ==
    /\ Runnable("proposer")
    /\ pc["proposer"] = "drain"
    /\ next_batch_id <= MaxBatches
    /\ local["proposer"].drained = Len(workers)
    /\ local' = [local EXCEPT
                    !["proposer"].batch =
                        Some(BatchNew(next_batch_id, round,
                                      local["proposer"].transmissions)),
                    !["proposer"].transmissions = {},
                    !["proposer"].drained = 0]
    /\ next_batch_id' = next_batch_id + 1
    /\ Goto("proposer", "set")
    /\ UNCHANGED <<workers, proposed_batch, round, events, gateway, shut_pc, guards,
                   channels, stores, startup, spawned>>

\* propose_batch after the loop, when Batch::new fails: the error is returned and
\* logged, the map of drained transmissions is dropped and the loop starts over.
ProposerDrainFails ==
    /\ Runnable("proposer")
    /\ pc["proposer"] = "drain"
    /\ next_batch_id <= MaxBatches
    /\ local["proposer"].drained = Len(workers)
    /\ local' = [local EXCEPT !["proposer"].transmissions = {},
                              !["proposer"].drained = 0]
    /\ Goto("proposer", "check")
    /\ UNCHANGED <<workers, proposed_batch, next_batch_id, round, events, gateway,
                   shut_pc, guards, channels, stores, startup, spawned>>

\* A propose_batch that broadcasts the batch without setting the cell.
ProposerSetSkipped ==
    /\ Runnable("proposer")
    /\ pc["proposer"] = "set"
    /\ Goto("proposer", "broadcast")
    /\ UNCHANGED <<workers, proposed_batch, local, next_batch_id, round, events, gateway,
                   shut_pc, guards, channels, stores, startup, spawned>>

\* *self.proposed_batch.write() = Some((batch.clone(), vec![]))
ProposerSet ==
    /\ Runnable("proposer")
    /\ pc["proposer"] = "set"
    /\ proposed_batch' =
         Some([batch |-> Unwrap(local["proposer"].batch), signatures |-> <<>>])
    /\ Goto("proposer", "broadcast")
    /\ guards' = [guards EXCEPT !["proposer"] = Scoped(@, <<"proposed_batch", "write">>)]
    /\ UNCHANGED <<workers, local, next_batch_id, round, events, gateway, shut_pc,
                   channels, stores, startup, spawned>>

Event(type, to, payload) == [type |-> type, to |-> to, payload |-> payload]

\* self.gateway.broadcast(Event::BatchPropose(..)); propose_batch returns Ok.
ProposerBroadcast ==
    /\ Runnable("proposer")
    /\ pc["proposer"] = "broadcast"
    /\ events' = Append(events,
                        Event("BatchPropose", "all", Unwrap(local["proposer"].batch)))
    /\ local' = [local EXCEPT !["proposer"].batch = None]
    /\ Goto("proposer", "check")
    /\ UNCHANGED <<workers, proposed_batch, next_batch_id, round, gateway, shut_pc,
                   guards, channels, stores, startup, spawned>>

\* ------------------------------------------------------------------ sealer
\* A sealer that never sees a batch.
SealerSeesNoneAlways(cell) == TRUE

\* self_clone.proposed_batch.read().is_none()
SealerSeesNone(cell) == ~IsSome(cell)
\* A sealer that seals whatever the signatures.
IsReadyAlways(signatures) == TRUE

\* if !signatures.is_empty() { is_ready = true; }
IsReady(signatures) == signatures # <<>>

\* The head of the sealer's loop: with no batch it sleeps and starts over.
SealerCheck ==
    /\ Runnable("sealer")
    /\ pc["sealer"] \in {"start", "sleep"}
    /\ IF SealerSeesNone(proposed_batch)
         THEN Goto("sealer", "sleep")
         ELSE Goto("sealer", "snapshot")
    /\ guards' = [guards EXCEPT !["sealer"] = Scoped(@, <<"proposed_batch", "read">>)]
    /\ UNCHANGED <<workers, proposed_batch, local, next_batch_id, round, events, gateway,
                   shut_pc, channels, stores, startup, spawned>>

\* A batch that is expired as soon as it is proposed.
IsExpiredAlways(batch) == TRUE

\* let mut is_expired = false: the assignment that would set it is commented out.
IsExpired(batch) == FALSE

\* The snapshot of the cell (a clone taken under the read guard of the `if let`) that
\* sets is_ready; with neither flag set the sealer sleeps. The clone is kept in
\* local until the pass ends.
SealerSnapshot ==
    /\ Runnable("sealer")
    /\ pc["sealer"] = "snapshot"
    /\ LET is_expired == IsSome(proposed_batch) /\ IsExpired(Unwrap(proposed_batch).batch)
           is_ready == IsSome(proposed_batch) /\ IsReady(Unwrap(proposed_batch).signatures)
       IN /\ local' = [local EXCEPT
                          !["sealer"].is_expired = is_expired,
                          !["sealer"].is_ready = is_ready,
                          !["sealer"].snapshot =
                              IF is_expired \/ is_ready THEN proposed_batch ELSE None]
          /\ Goto("sealer", IF is_expired \/ is_ready THEN "take" ELSE "sleep")
    /\ guards' = [guards EXCEPT !["sealer"] = Scoped(@, <<"proposed_batch", "read">>)]
    /\ UNCHANGED <<workers, proposed_batch, next_batch_id, round, events, gateway,
                   shut_pc, channels, stores, startup, spawned>>

\* A take that moves out the signatures only and leaves the batch in the cell.
TakeCellKeepsBatch(cell) ==
    Some([batch |-> Unwrap(cell).batch, signatures |-> <<>>])

\* Option::take: the value is moved out and None is left.
TakeCell(cell) == None

\* A sealer that seals what its snapshot saw.
TakenFromSnapshot(cell, snapshot) == Unwrap(snapshot)

\* self_clone.proposed_batch.write().take().unwrap(): what is in the cell now.
Taken(cell, snapshot) == Unwrap(cell)

\* if is_expired { *proposed_batch.write() = None }, then if is_ready
\* { proposed_batch.write().take().unwrap(), batch.seal(signatures) }: unwrap panics on
\* an empty cell, which ends the task.
SealerTake ==
    /\ Runnable("sealer")
    /\ pc["sealer"] = "take"
    /\ LET cell == IF local["sealer"].is_expired THEN None ELSE proposed_batch IN
         IF local["sealer"].is_ready
           THEN IF IsSome(cell)
                  THEN /\ local' = [local EXCEPT !["sealer"].sealed_batch =
                              Some(Seal(Taken(cell, local["sealer"].snapshot).batch,
                                        Taken(cell, local["sealer"].snapshot).signatures))]
                       /\ proposed_batch' = TakeCell(cell)
                       /\ Goto("sealer", "store")
                  ELSE /\ proposed_batch' = cell
                       /\ UNCHANGED local
                       /\ Goto("sealer", "panicked")
           ELSE /\ proposed_batch' = cell
                /\ local' = [local EXCEPT !["sealer"].snapshot = None,
                                          !["sealer"].is_expired = FALSE]
                /\ Goto("sealer", "sleep")
    /\ guards' = [guards EXCEPT !["sealer"] = Scoped(@, <<"proposed_batch", "write">>)]
    /\ UNCHANGED <<workers, next_batch_id, round, events, gateway, shut_pc, channels,
                   stores, startup, spawned>>

\* A sealer that broadcasts the certificate without storing the sealed batch.
SealerStoreSkipped ==
    /\ Runnable("sealer")
    /\ pc["sealer"] = "store"
    /\ Goto("sealer", "broadcast")
    /\ UNCHANGED <<workers, proposed_batch, local, next_batch_id, round, events, gateway,
                   shut_pc, guards, channels, stores, startup, spawned>>

\* self_clone.shared.store_sealed_batch_from_primary(address, sealed_batch)
SealerStore ==
    /\ Runnable("sealer")
    /\ pc["sealer"] = "store"
    /\ sealed_from_primary' =
         Append(sealed_from_primary,
                [address |-> LocalAddress,
                 sealed_batch |-> Unwrap(local["sealer"].sealed_batch)])
    /\ Goto("sealer", "broadcast")
    /\ UNCHANGED <<workers, proposed_batch, local, next_batch_id, round, events, gateway,
                   shut_pc, guards, channels, proposed_batches, sealed_batches, startup,
                   spawned>>

\* self_clone.gateway.broadcast(Event::BatchSealed(event)), then the 50 ms sleep.
SealerBroadcast ==
    /\ Runnable("sealer")
    /\ pc["sealer"] = "broadcast"
    /\ events' = Append(events,
                        Event("BatchSealed", "all",
                              Certificate(Unwrap(local["sealer"].sealed_batch))))
    /\ local' = [local EXCEPT !["sealer"].sealed_batch = None,
                              !["sealer"].snapshot = None,
                              !["sealer"].is_expired = FALSE,
                              !["sealer"].is_ready = FALSE]
    /\ Goto("sealer", "sleep")
    /\ UNCHANGED <<workers, proposed_batch, next_batch_id, round, gateway, shut_pc,
                   guards, channels, stores, startup, spawned>>

\* ------------------------------------------------------------------ handlers
\* A handler that returns at the first error.
OnErrorReturn(task) == "ended"

\* `if let Err(e) = .. { error!(..) }` and `else { error!(..); continue }`: the error
\* is logged and the loop goes on to its next recv().await.
OnError(task) == "recv"

\* ------------------------------------------------------------------ BatchPropose
\* rx_batch_propose.recv().await returns a message; its batch is being deserialized.
BatchProposeRecv ==
    /\ Runnable("batch_propose")
    /\ pc["batch_propose"] \in {"start", "recv"}
    /\ rx_batch_propose # <<>>
    /\ local' = [local EXCEPT !["batch_propose"].msg = Some(Head(rx_batch_propose))]
    /\ rx_batch_propose' = Tail(rx_batch_propose)
    /\ Goto("batch_propose", "deserialize")
    /\ UNCHANGED <<workers, proposed_batch, next_batch_id, round, events, gateway,
                   shut_pc, guards, rx_batch_signature, rx_batch_sealed, rx_unconfirmed_solution,
                   rx_unconfirmed_transaction, stores, startup, spawned>>

\* batch_propose.batch.deserialize().await? and self.shared.store_proposed_batch(..)
BatchProposeStore ==
    /\ Runnable("batch_propose")
    /\ pc["batch_propose"] = "deserialize"
    /\ LET msg == Unwrap(local["batch_propose"].msg) IN
         IF msg.well_formed
           THEN /\ proposed_batches' =
                     proposed_batches \cup {[peer_ip |-> msg.peer_ip, batch |-> msg.batch]}
                /\ Goto("batch_propose", "sign")
                /\ UNCHANGED local
           ELSE /\ local' = [local EXCEPT !["batch_propose"].msg = None]
                /\ Goto("batch_propose", OnError("batch_propose"))
                /\ UNCHANGED proposed_batches
    /\ UNCHANGED <<workers, proposed_batch, next_batch_id, round, events, gateway,
                   shut_pc, guards, channels, sealed_batches, sealed_from_primary,
                   startup, spawned>>

\* A handler that answers every peer.
SignatureRecipientAll(msg) == "all"

\* self.gateway.send(peer_ip, ..): the peer the message came from.
SignatureRecipient(msg) == msg.peer_ip

\* self.gateway.account().sign(&[batch.batch_id()], rng)? and self.gateway.send(..):
\* when signing fails the error is returned and nothing is sent.
BatchProposeSign ==
    /\ Runnable("batch_propose")
    /\ pc["batch_propose"] = "sign"
    /\ LET msg == Unwrap(local["batch_propose"].msg) IN
         \/ /\ events' = Append(events,
                   Event("BatchSignature", SignatureRecipient(msg),
                         [batch_id |-> msg.batch.batch_id,
                          signature |-> Sign(LocalAddress, msg.batch.batch_id)]))
            /\ Goto("batch_propose", "recv")
         \/ /\ events' = events
            /\ Goto("batch_propose", OnError("batch_propose"))
    /\ local' = [local EXCEPT !["batch_propose"].msg = None]
    /\ UNCHANGED <<workers, proposed_batch, next_batch_id, round, gateway, shut_pc,
                   guards, channels, stores, startup, spawned>>

\* ------------------------------------------------------------------ BatchSignature
\* A handler without the committee check.
SignatureAcceptedByAnyPeer(msg, cell) ==
    /\ IsSome(cell) /\ Unwrap(cell).batch.batch_id = msg.batch_id
    /\ IsSome(GetAddress(msg.peer_ip))
    /\ Verify(msg.signature, Unwrap(GetAddress(msg.peer_ip)), msg.batch_id)

\* The checks of process_batch_signature_from_peer, in the order it makes them.
BatchIdMatches(batch_id, cell) ==
    IsSome(cell) /\ Unwrap(cell).batch.batch_id = batch_id
SignatureAccepted(msg, cell) ==
    /\ BatchIdMatches(msg.batch_id, cell)
    /\ IsSome(GetAddress(msg.peer_ip))
    /\ IsCommitteeMember(Unwrap(GetAddress(msg.peer_ip)))
    /\ Verify(msg.signature, Unwrap(GetAddress(msg.peer_ip)), msg.batch_id)

\* rx_batch_signature.recv().await returns a message and the handler checks it: a
\* message that fails a check is dropped with a warning.
BatchSignatureCheck ==
    /\ Runnable("batch_signature")
    /\ pc["batch_signature"] \in {"start", "recv"}
    /\ rx_batch_signature # <<>>
    /\ rx_batch_signature' = Tail(rx_batch_signature)
    /\ IF SignatureAccepted(Head(rx_batch_signature), proposed_batch)
         THEN /\ local' = [local EXCEPT
                             !["batch_signature"].msg = Some(Head(rx_batch_signature))]
              /\ Goto("batch_signature", "append")
         ELSE /\ UNCHANGED local
              /\ Goto("batch_signature", "recv")
    /\ guards' = [guards EXCEPT
                     !["batch_signature"] = Scoped(@, <<"proposed_batch", "read">>)]
    /\ UNCHANGED <<workers, proposed_batch, next_batch_id, round, events, gateway,
                   shut_pc, rx_batch_propose, rx_batch_sealed, rx_unconfirmed_solution,
                   rx_unconfirmed_transaction, stores, startup, spawned>>

\* signatures.push(signature)
PushSignature(signatures, signature) == Append(signatures, signature)

\* if let Some((_, signatures)) = self.proposed_batch.write().as_mut() { push }
BatchSignatureAppend ==
    /\ Runnable("batch_signature")
    /\ pc["batch_signature"] = "append"
    /\ proposed_batch' =
         IF IsSome(proposed_batch)
           THEN Some([Unwrap(proposed_batch) EXCEPT !.signatures =
                        PushSignature(@, Unwrap(local["batch_signature"].msg).signature)])
           ELSE proposed_batch
    /\ local' = [local EXCEPT !["batch_signature"].msg = None]
    /\ Goto("batch_signature", "recv")
    /\ guards' = [guards EXCEPT
                     !["batch_signature"] = Scoped(@, <<"proposed_batch", "write">>)]
    /\ UNCHANGED <<workers, next_batch_id, round, events, gateway, shut_pc, channels,
                   stores, startup, spawned>>

\* ------------------------------------------------------------------ BatchSealed
\* rx_batch_sealed.recv().await returns a message; its certificate is being deserialized.
BatchSealedRecv ==
    /\ Runnable("batch_sealed")
    /\ pc["batch_sealed"] \in {"start", "recv"}
    /\ rx_batch_sealed # <<>>
    /\ local' = [local EXCEPT !["batch_sealed"].msg = Some(Head(rx_batch_sealed))]
    /\ rx_batch_sealed' = Tail(rx_batch_sealed)
    /\ Goto("batch_sealed", "deserialize")
    /\ UNCHANGED <<workers, proposed_batch, next_batch_id, round, events, gateway,
                   shut_pc, guards, rx_batch_propose, rx_batch_signature, rx_unconfirmed_solution,
                   rx_unconfirmed_transaction, stores, startup, spawned>>

\* batch_certificate.deserialize().await and self_clone.shared.store_sealed_batch(..)
BatchSealedStore ==
    /\ Runnable("batch_sealed")
    /\ pc["batch_sealed"] = "deserialize"
    /\ LET msg == Unwrap(local["batch_sealed"].msg) IN
         IF msg.well_formed
           THEN /\ sealed_batches' = sealed_batches \cup
                      {[peer_ip |-> msg.peer_ip, certificate |-> msg.certificate]}
                /\ Goto("batch_sealed", "recv")
           ELSE /\ sealed_batches' = sealed_batches
                /\ Goto("batch_sealed", OnError("batch_sealed"))
    /\ local' = [local EXCEPT !["batch_sealed"].msg = None]
    /\ UNCHANGED <<workers, proposed_batch, next_batch_id, round, events, gateway,
                   shut_pc, guards, channels, proposed_batches, sealed_from_primary,
                   startup, spawned>>

\* ------------------------------------------------------------------ Unconfirmed*
\* self.workers.read().len()
NumWorkers == Len(workers)
\* A handler that always takes the first worker.
PickWorkerFirst(worker_id) == 0

\* The worker the handler picks: workers.read()[worker_id as usize]
PickWorker(worker_id) == worker_id

\* recv().await returns an item: with no worker assignable it is dropped, else the
\* handler takes the worker's handle and calls its process method.
Route(task, id) ==
    LET assigned == AssignToWorker(id, NumWorkers) IN
      IF IsSome(assigned)
        THEN /\ local' = [local EXCEPT ![task].msg = Some(id),
                                       ![task].worker_id =
                                           Some(PickWorker(Unwrap(assigned)))]
             /\ guards' = [guards EXCEPT ![task] =
                              Scoped(Scoped(@, <<"workers", "read">>),
                                     <<"workers", "read">>)]
             /\ Goto(task, IF PickWorker(Unwrap(assigned)) < Len(workers)
                             THEN "process" ELSE "panicked")
        ELSE /\ UNCHANGED local
             /\ guards' = [guards EXCEPT ![task] = Scoped(@, <<"workers", "read">>)]
             /\ Goto(task, OnError(task))

\* worker.process_unconfirmed_*(id, item).await: the worker inserts the item, or
\* returns an error that is logged.
Process(task) ==
    LET id == Unwrap(local[task].msg)
        w == Unwrap(local[task].worker_id) + 1
    IN /\ \/ /\ workers' = [workers EXCEPT ![w].transmissions = @ \cup {id}]
             /\ Goto(task, "recv")
          \/ /\ workers' = workers
             /\ Goto(task, OnError(task))
       /\ local' = [local EXCEPT ![task].msg = None, ![task].worker_id = None]

UnconfirmedSolutionRecv ==
    /\ Runnable("unconfirmed_solution")
    /\ pc["unconfirmed_solution"] \in {"start", "recv"}
    /\ rx_unconfirmed_solution # <<>>
    /\ rx_unconfirmed_solution' = Tail(rx_unconfirmed_solution)
    /\ Route("unconfirmed_solution", Head(rx_unconfirmed_solution))
    /\ UNCHANGED <<workers, proposed_batch, next_batch_id, round, events, gateway,
                   shut_pc, rx_batch_propose, rx_batch_signature, rx_batch_sealed,
                   rx_unconfirmed_transaction, stores, startup, spawned>>

UnconfirmedSolutionProcess ==
    /\ Runnable("unconfirmed_solution")
    /\ pc["unconfirmed_solution"] = "process"
    /\ Process("unconfirmed_solution")
    /\ UNCHANGED <<proposed_batch, next_batch_id, round, events, gateway, shut_pc,
                   guards, channels, stores, startup, spawned>>

UnconfirmedTransactionRecv ==
    /\ Runnable("unconfirmed_transaction")
    /\ pc["unconfirmed_transaction"] \in {"start", "recv"}
    /\ rx_unconfirmed_transaction # <<>>
    /\ rx_unconfirmed_transaction' = Tail(rx_unconfirmed_transaction)
    /\ Route("unconfirmed_transaction", Head(rx_unconfirmed_transaction))
    /\ UNCHANGED <<workers, proposed_batch, next_batch_id, round, events, gateway,
                   shut_pc, rx_batch_propose, rx_batch_signature, rx_batch_sealed,
                   rx_unconfirmed_solution, stores, startup, spawned>>

UnconfirmedTransactionProcess ==
    /\ Runnable("unconfirmed_transaction")
    /\ pc["unconfirmed_transaction"] = "process"
    /\ Process("unconfirmed_transaction")
    /\ UNCHANGED <<proposed_batch, next_batch_id, round, events, gateway, shut_pc,
                   guards, channels, stores, startup, spawned>>

\* ------------------------------------------------------------------ shut_down
\* self.workers.read().iter().for_each(|worker| worker.shut_down())
ShutDownWorkers ==
    /\ shut_pc = "idle"
    /\ run_pc # "init"
    /\ workers' = [i \in 1..Len(workers) |-> [workers[i] EXCEPT !.running = FALSE]]
    /\ shut_pc' = "abort"
    /\ guards' = [guards EXCEPT !["shut_down"] = Scoped(@, <<"workers", "read">>)]
    /\ UNCHANGED <<proposed_batch, pc, local, next_batch_id, round, events, gateway,
                   channels, stores, startup, spawned>>

\* self.handles.lock().iter().for_each(|handle| handle.abort())
ShutDownAbort ==
    /\ shut_pc = "abort"
    /\ aborted' = aborted \cup Range(handles)
    /\ shut_pc' = "gateway"
    /\ UNCHANGED <<workers, proposed_batch, pc, local, next_batch_id, round, events,
                   gateway, guards, channels, stores, startup, handles>>

\* self.gateway.shut_down().await, after which shut_down returns.
ShutDownGateway ==
    /\ shut_pc = "gateway"
    /\ gateway' = "closed"
    /\ shut_pc' = "returned"
    /\ UNCHANGED <<workers, proposed_batch, pc, local, next_batch_id, round, events,
                   guards, channels, stores, startup, spawned>>

\* ------------------------------------------------------------------ specification
Next ==
    \/ RunSetPrimarySender
    \/ RunInitWorker
    \/ RunInitWorkerFails
    \/ RunGateway
    \/ RunStartHandlers
    \/ ProposerCheck
    \/ ProposerDrainWorker
    \/ ProposerDrainSigned
    \/ ProposerDrainFails
    \/ ProposerSet
    \/ ProposerBroadcast
    \/ SealerCheck
    \/ SealerSnapshot
    \/ SealerTake
    \/ SealerStore
    \/ SealerBroadcast
    \/ BatchProposeRecv
    \/ BatchProposeStore
    \/ BatchProposeSign
    \/ BatchSignatureCheck
    \/ BatchSignatureAppend
    \/ BatchSealedRecv
    \/ BatchSealedStore
    \/ UnconfirmedSolutionRecv
    \/ UnconfirmedSolutionProcess
    \/ UnconfirmedTransactionRecv
    \/ UnconfirmedTransactionProcess

\* The running Primary: run, the two loops and the five handlers. shut_down only stops
\* tasks and writes state no task reads, so it is left to ShutDownSpec.
Spec == Init /\ [][Next]_vars

\* The scheduling of a run without failures: run goes on spawning, the runtime polls
\* every task that can take a step, and Batch::new does not fail forever.
Fairness ==
    /\ WF_vars(RunStartHandlers)
    /\ WF_vars(ProposerCheck)
    /\ WF_vars(ProposerDrainWorker)
    /\ SF_vars(ProposerDrainSigned)
    /\ WF_vars(ProposerSet)
    /\ WF_vars(ProposerBroadcast)
    /\ WF_vars(SealerCheck)
    /\ WF_vars(SealerSnapshot)
    /\ WF_vars(SealerTake)
    /\ WF_vars(SealerStore)
    /\ WF_vars(SealerBroadcast)
    /\ WF_vars(BatchSignatureCheck)
    /\ WF_vars(BatchSignatureAppend)

LiveSpec == Init /\ [][Next]_vars /\ Fairness

\* The runtime polls every handler task that can take a step.
HandlerFairness ==
    /\ WF_vars(BatchProposeRecv)
    /\ WF_vars(BatchProposeStore)
    /\ WF_vars(BatchProposeSign)
    /\ WF_vars(BatchSignatureCheck)
    /\ WF_vars(BatchSignatureAppend)
    /\ WF_vars(BatchSealedRecv)
    /\ WF_vars(BatchSealedStore)
    /\ WF_vars(UnconfirmedSolutionRecv)
    /\ WF_vars(UnconfirmedSolutionProcess)
    /\ WF_vars(UnconfirmedTransactionRecv)
    /\ WF_vars(UnconfirmedTransactionProcess)

HandlerSpec == Init /\ [][Next]_vars /\ HandlerFairness

\* shut_down, called once at any point after run was called. It writes only the
\* workers' running flags, the aborted handles and the gateway.
ShutDown ==
    \/ ShutDownWorkers
    \/ ShutDownAbort
    \/ ShutDownGateway

NextOrShutDown == Next \/ ShutDown

\* The messages waiting on the five ingress channels.
Backlog ==
    Len(rx_batch_propose) + Len(rx_batch_signature) + Len(rx_batch_sealed)
      + Len(rx_unconfirmed_solution) + Len(rx_unconfirmed_transaction)

\* shut_down is interleaved with every step of run and of the tasks; the backlog it
\* is explored with is one message shorter.
ShutDownInit == Init /\ Backlog < MaxBacklog

ShutDownSpec == ShutDownInit /\ [][NextOrShutDown]_vars

\* ------------------------------------------------------------------ properties
Cell == Unwrap(proposed_batch)
Addresses == {"addrA", "addrB", "addrC", "addrD"}
EventsOfType(type) == SelectSeq(events, LAMBDA e : e.type = type)
TaskStep(task, from, to) == pc[task] = from /\ pc'[task] = to

\* C1: every signature in the proposal cell verifies under a committee member's
\* address over the batch_id of the batch that is in the cell.
SignatureValidity ==
    IsSome(proposed_batch) =>
        \A i \in 1..Len(Cell.signatures) :
            \E address \in Addresses :
                /\ IsCommitteeMember(address)
                /\ Verify(Cell.signatures[i], address, Cell.batch.batch_id)

\* C2: the proposal cell holds at most one signature per signer address.
SignatureUniqueness ==
    IsSome(proposed_batch) =>
        \A i, j \in 1..Len(Cell.signatures) :
            i # j => Cell.signatures[i].signer # Cell.signatures[j].signer

\* C3: the proposer writes a proposal only into an empty cell; an occupied cell is
\* never overwritten by another batch, and only the sealer's take empties it.
ProposerWritesEmptyCell ==
    [][/\ TaskStep("proposer", "set", "broadcast") => ~IsSome(proposed_batch)
       /\ (IsSome(proposed_batch) /\ IsSome(proposed_batch'))
            => Cell'.batch = Cell.batch
       /\ (IsSome(proposed_batch) /\ ~IsSome(proposed_batch'))
            => TaskStep("sealer", "take", "store")
       /\ (~IsSome(proposed_batch) /\ IsSome(proposed_batch'))
            => TaskStep("proposer", "set", "broadcast")]_vars
\* A second batch is in the cell, after the first one went through the empty state.
SecondProposalInCell ==
    /\ IsSome(proposed_batch)
    /\ Cell.batch.batch_id = 2
    /\ Cell.signatures = <<>>
    /\ Len(sealed_from_primary) = 1

\* C4: while the same batch stays in the cell its signature count never decreases,
\* and an empty signature list appears only when a new batch is written into the cell.
QuorumMonotonicity ==
    [][/\ (IsSome(proposed_batch) /\ IsSome(proposed_batch')
             /\ Cell'.batch.batch_id = Cell.batch.batch_id)
            => Len(Cell'.signatures) >= Len(Cell.signatures)
       /\ (IsSome(proposed_batch') /\ Cell'.signatures = <<>>
             /\ proposed_batch' # proposed_batch)
            => ~IsSome(proposed_batch)]_vars
\* The count grew for the first batch, was reset by the second and grew again.
CountGrewAfterReset ==
    /\ IsSome(proposed_batch)
    /\ Cell.batch.batch_id = 2
    /\ Len(Cell.signatures) >= 1
    /\ Len(sealed_from_primary) = 1
    /\ Len(sealed_from_primary[1].sealed_batch.signatures) >= 1

\* The cases of a BatchSignature that fails a check: no batch or another batch in the
\* cell, a peer without an address, an address outside the committee, a signature
\* that does not verify.
FailsACheck(msg, cell) ==
    \/ ~IsSome(cell)
    \/ Unwrap(cell).batch.batch_id # msg.batch_id
    \/ ~IsSome(GetAddress(msg.peer_ip))
    \/ ~IsCommitteeMember(Unwrap(GetAddress(msg.peer_ip)))
    \/ ~Verify(msg.signature, Unwrap(GetAddress(msg.peer_ip)), msg.batch_id)

\* C5: processing a BatchSignature that fails a check leaves the cell unchanged, emits
\* no event and keeps nothing of the message.
RejectedSignatureChangesNothing ==
    [][(/\ rx_batch_signature # <<>>
        /\ rx_batch_signature' = Tail(rx_batch_signature)
        /\ FailsACheck(Head(rx_batch_signature), proposed_batch))
         => /\ proposed_batch' = proposed_batch
            /\ events' = events
            /\ pc'["batch_signature"] = "recv"
            /\ local'["batch_signature"].msg = None]_vars
\* The handler has consumed messages while a batch was proposed, and none was added.
SignatureWasRejected ==
    /\ pc["batch_signature"] = "recv"
    /\ rx_batch_signature = <<>>
    /\ IsSome(proposed_batch)
    /\ Cell.batch.batch_id = 1
    /\ Cell.signatures = <<>>
    /\ EventsOfType("BatchPropose") # <<>>

\* C6: a seal takes the cell's batch and signatures and leaves it empty; the sealed
\* batch is stored under the local address and then BatchSealed is broadcast with its
\* certificate, once each per seal.
SealStoresThenBroadcasts ==
    /\ [](/\ Len(EventsOfType("BatchSealed")) <= Len(sealed_from_primary)
          /\ Len(sealed_from_primary) <= Len(EventsOfType("BatchSealed")) + 1
          /\ (Len(sealed_from_primary) = Len(EventsOfType("BatchSealed")) + 1)
                <=> (pc["sealer"] = "broadcast")
          /\ \A i \in 1..Len(sealed_from_primary) :
                sealed_from_primary[i].address = "addrA"
          /\ \A i \in 1..Len(EventsOfType("BatchSealed")) :
                /\ EventsOfType("BatchSealed")[i].to = "all"
                /\ EventsOfType("BatchSealed")[i].payload.batch_id =
                     sealed_from_primary[i].sealed_batch.batch.batch_id
                /\ EventsOfType("BatchSealed")[i].payload.signatures =
                     sealed_from_primary[i].sealed_batch.signatures)
    /\ [][/\ TaskStep("sealer", "take", "store")
               => /\ IsSome(proposed_batch)
                  /\ ~IsSome(proposed_batch')
                  /\ local'["sealer"].sealed_batch =
                       Some([batch |-> Cell.batch, signatures |-> Cell.signatures])
          /\ sealed_from_primary' # sealed_from_primary
               => /\ TaskStep("sealer", "store", "broadcast")
                  /\ sealed_from_primary' =
                       Append(sealed_from_primary,
                              [address |-> "addrA",
                               sealed_batch |-> Unwrap(local["sealer"].sealed_batch)])
          /\ EventsOfType("BatchSealed")' # EventsOfType("BatchSealed")
               => /\ TaskStep("sealer", "broadcast", "sleep")
                  /\ Len(EventsOfType("BatchSealed")') =
                       Len(EventsOfType("BatchSealed")) + 1
          /\ pc["sealer"] = "store" => pc'["sealer"] \in {"store", "broadcast"}
          /\ pc["sealer"] = "broadcast" => pc'["sealer"] \in {"broadcast", "sleep"}]_vars
\* A batch was sealed, stored and broadcast, and the cell is empty.
SealedStoredAndBroadcast ==
    /\ ~IsSome(proposed_batch)
    /\ Len(sealed_from_primary) = 1
    /\ Len(EventsOfType("BatchSealed")) = 1
    /\ pc["sealer"] = "sleep"

\* C7: a batch is taken from the cell for sealing only with at least one signature:
\* no sealed batch is stored and no BatchSealed is broadcast with an empty list.
SealedOnlyWithQuorum ==
    /\ [](/\ \A i \in 1..Len(sealed_from_primary) :
                Len(sealed_from_primary[i].sealed_batch.signatures) >= 1
          /\ \A i \in 1..Len(EventsOfType("BatchSealed")) :
                Len(EventsOfType("BatchSealed")[i].payload.signatures) >= 1)
    /\ [][TaskStep("sealer", "take", "store")
            => (IsSome(proposed_batch) /\ Len(Cell.signatures) >= 1)]_vars
\* A batch was sealed with exactly one signature.
SealedWithOneSignature ==
    /\ Len(sealed_from_primary) >= 1
    /\ Len(sealed_from_primary[1].sealed_batch.signatures) = 1
    /\ Len(EventsOfType("BatchSealed")) >= 1

\* A BatchSignature of the committee peer ipB for batch b, with its signature over b,
\* waits on the channel while b is in the cell.
ValidSignatureDelivered(b) ==
    /\ IsSome(proposed_batch)
    /\ Cell.batch.batch_id = b
    /\ \E i \in 1..Len(rx_batch_signature) :
          rx_batch_signature[i] =
              [peer_ip |-> "ipB", batch_id |-> b, signature |-> Sign("addrB", b)]
\* Batch b has left the cell, is stored under the local address and was broadcast.
SealedAndBroadcast(b) ==
    /\ ~(IsSome(proposed_batch) /\ Cell.batch.batch_id = b)
    /\ \E i \in 1..Len(sealed_from_primary) :
          /\ sealed_from_primary[i].address = "addrA"
          /\ sealed_from_primary[i].sealed_batch.batch.batch_id = b
    /\ \E i \in 1..Len(events) :
          /\ events[i].type = "BatchSealed"
          /\ events[i].payload.batch_id = b
\* The proposer has proposed the batch after b.
ProposedAfter(b) ==
    \E i \in 1..Len(events) :
        /\ events[i].type = "BatchPropose"
        /\ events[i].payload.batch_id = b + 1

\* C8: a batch in the cell for which a committee peer's valid BatchSignature is
\* delivered is eventually sealed, stored and broadcast, and after that the proposer
\* proposes the next batch (as long as the model lets it construct one).
HappyPathLiveness ==
    \A b \in BatchIds :
        /\ ValidSignatureDelivered(b) ~> SealedAndBroadcast(b)
        /\ (SealedAndBroadcast(b) /\ b < MaxBatches) ~> ProposedAfter(b)
\* The first batch was sealed and broadcast and the second one has been proposed.
SealedThenProposedAgain ==
    /\ SealedAndBroadcast(1)
    /\ ProposedAfter(1)
    /\ rx_batch_signature = <<>>

Routers == {"unconfirmed_solution", "unconfirmed_transaction"}
Ingress(task) ==
    IF task = "unconfirmed_solution" THEN rx_unconfirmed_solution
                                     ELSE rx_unconfirmed_transaction

\* C9: with n > 0 workers a received item is handed to the one worker at index
\* H(id) mod n, a valid index, and to no other; with n = 0 it is dropped.
ItemRoutedToAssignedWorker ==
    /\ [](\A task \in Routers :
            /\ pc[task] # "panicked"
            /\ pc[task] = "process" =>
                 /\ Len(workers) > 0
                 /\ Unwrap(local[task].worker_id) =
                      Fingerprint(Unwrap(local[task].msg)) % Len(workers)
                 /\ Unwrap(local[task].worker_id) \in 0..(Len(workers) - 1)
                 /\ workers[Unwrap(local[task].worker_id) + 1].id =
                      Unwrap(local[task].worker_id))
    /\ [][\A task \in Routers :
            /\ (Ingress(task) # <<>> /\ Ingress(task)' = Tail(Ingress(task)))
                 => IF Len(workers) = 0
                      THEN /\ pc'[task] = "recv"
                           /\ local'[task] = local[task]
                           /\ workers' = workers
                      ELSE /\ pc'[task] = "process"
                           /\ local'[task].msg = Some(Head(Ingress(task)))
                           /\ workers' = workers
            /\ TaskStep(task, "process", "recv")
                 => \A i \in 1..Len(workers) :
                      IF i = (Fingerprint(Unwrap(local[task].msg)) % Len(workers)) + 1
                        THEN workers'[i].transmissions \subseteq
                               workers[i].transmissions \cup {Unwrap(local[task].msg)}
                        ELSE workers'[i] = workers[i]]_vars
\* With two workers, the second one holds the transaction whose fingerprint is odd.
TransactionAtSecondWorker ==
    /\ Len(workers) = 2
    /\ [kind |-> "transaction", bytes |-> <<1, 0>>] \in workers[2].transmissions
    /\ workers[1].transmissions = {}

\* C10: once shut_down has returned the gateway is closed and no spawned task takes a
\* step: nothing is proposed, sealed, stored, broadcast or handed to a worker.
ShutDownQuiescence ==
    /\ [](shut_pc = "returned" => gateway = "closed")
    /\ [][shut_pc = "returned" =>
            /\ pc' = pc
            /\ proposed_batch' = proposed_batch
            /\ \A i \in 1..Len(workers) :
                 workers'[i].transmissions = workers[i].transmissions
            /\ events' = events
            /\ <<proposed_batches, sealed_batches, sealed_from_primary>>'
                 = <<proposed_batches, sealed_batches, sealed_from_primary>>]_vars

\* C11: during and after run, also after run failed part-way, the worker at index i
\* has id i, the ids are pairwise distinct, there are at most MAX_WORKERS workers, and
\* the list never shrinks.
WorkerIdsArePrefix ==
    /\ [](/\ \A i \in 1..Len(workers) : workers[i].id = i - 1
          /\ \A i, j \in 1..Len(workers) : i # j => workers[i].id # workers[j].id
          /\ Len(workers) <= MAX_WORKERS)
    /\ [][/\ Len(workers') >= Len(workers)
          /\ \A i \in 1..Len(workers) : workers'[i].id = workers[i].id]_vars
\* run failed after it had pushed the first of its workers.
RunFailedPartWay ==
    /\ run_pc = "failed"
    /\ Len(workers) = 1
    /\ Len(workers) < MAX_WORKERS

\* C12: no task is suspended (at a channel receive, a sleep, a deserialization or a
\* worker's process call), and neither run (before a worker's start and before the
\* gateway's start) nor shut_down (before the gateway's shutdown) awaits, while
\* holding a read or write guard of proposed_batch or of workers.
NoGuardAcrossSuspension ==
    /\ \A task \in Tasks : pc[task] \in AwaitPoints => guards[task] = {}
    /\ run_pc = "workers" => guards["run"] = {}
    /\ shut_pc = "gateway" => guards["shut_down"] = {}
\* The proposer holds the read guard of workers in the middle of its drain while the
\* sealer sleeps, a handler waits for a worker and shut_down closes the gateway.
GuardHeldWhileOthersSuspended ==
    /\ guards["proposer"] = {<<"workers", "read">>}
    /\ pc["proposer"] = "drain"
    /\ pc["sealer"] = "sleep"
    /\ pc["unconfirmed_transaction"] = "process"
    /\ shut_pc = "gateway"

Handlers == {"batch_propose", "batch_signature", "batch_sealed",
             "unconfirmed_solution", "unconfirmed_transaction"}
Channel(task) ==
    CASE task = "batch_propose" -> rx_batch_propose
      [] task = "batch_signature" -> rx_batch_signature
      [] task = "batch_sealed" -> rx_batch_sealed
      [] task = "unconfirmed_solution" -> rx_unconfirmed_solution
      [] task = "unconfirmed_transaction" -> rx_unconfirmed_transaction

\* C13: no message ends a handler task, whatever fails while it is processed: the
\* handler stays in its loop, takes the messages of its channel from the head, one at
\* a time and only when it is back at its receive, and every message that waits on
\* the channel of a spawned handler is eventually received and processed.
HandlersSurviveFailures ==
    /\ [](\A task \in Handlers :
            pc[task] \in {"start", "recv", "deserialize", "sign", "append", "process"})
    /\ [][\A task \in Handlers :
            Channel(task)' # Channel(task)
              => /\ pc[task] \in {"start", "recv"}
                 /\ Channel(task) # <<>>
                 /\ Channel(task)' = Tail(Channel(task))]_vars
    /\ \A task \in Handlers :
          (task \in Range(handles) /\ Channel(task) # <<>>)
            ~> (Channel(task) = <<>> /\ pc[task] = "recv")
\* The BatchPropose handler stored a batch and failed to sign it (nothing was sent),
\* and has received the next message of its channel.
ReceivedAfterFailure ==
    /\ pc["batch_propose"] = "deserialize"
    /\ proposed_batches # {}
    /\ EventsOfType("BatchSignature") = <<>>
    /\ rx_batch_propose = <<>>

\* The batches that are or were in the proposal cell: the one in it, the one the sealer
\* took out of it and the ones stored sealed.
BatchOf(option) == IF IsSome(option) THEN {Unwrap(option).batch} ELSE {}
EverInCell ==
    BatchOf(proposed_batch)
    \cup BatchOf(local["sealer"].sealed_batch)
    \cup {sealed_from_primary[i].sealed_batch.batch : i \in 1..Len(sealed_from_primary)}
\* Every batch that was broadcast in a BatchPropose is or was in the cell.
BroadcastOnlyAfterSet ==
    \A i \in 1..Len(events) :
        events[i].type = "BatchPropose" => events[i].payload \in EverInCell
\* The steps of propose_batch: a drain empties one worker into the map; the batch is
\* built after the last drain, for the current round and over the map; the cell is
\* set to that batch with no signatures; BatchPropose is broadcast after that, for
\* the same batch, and by no other step.
ProposeBatchSteps ==
    /\ local'["proposer"].drained = local["proposer"].drained + 1
         => LET i == local'["proposer"].drained IN
              /\ workers'[i].transmissions = {}
              /\ local'["proposer"].transmissions =
                   local["proposer"].transmissions \cup workers[i].transmissions
              /\ \A j \in 1..Len(workers) : j # i => workers'[j] = workers[j]
    /\ TaskStep("proposer", "drain", "set")
         => /\ local["proposer"].drained = Len(workers)
            /\ IsSome(local'["proposer"].batch)
            /\ Unwrap(local'["proposer"].batch).author = "addrA"
            /\ Unwrap(local'["proposer"].batch).round = round
            /\ Unwrap(local'["proposer"].batch).transmissions =
                 local["proposer"].transmissions
    /\ TaskStep("proposer", "set", "broadcast")
         => proposed_batch' =
              Some([batch |-> Unwrap(local["proposer"].batch), signatures |-> <<>>])
    /\ EventsOfType("BatchPropose")' # EventsOfType("BatchPropose")
         => /\ TaskStep("proposer", "broadcast", "check")
            /\ events' = Append(events, [type |-> "BatchPropose", to |-> "all",
                                         payload |-> Unwrap(local["proposer"].batch)])
    /\ pc'["proposer"] = "broadcast" => pc["proposer"] \in {"set", "broadcast"}
\* The drain loop ends with every worker empty.
AllEmptyAfterDrain ==
    (/\ local'["proposer"].drained = local["proposer"].drained + 1
     /\ local'["proposer"].drained = Len(workers))
      => \A i \in 1..Len(workers) : workers'[i].transmissions = {}

\* C14 as stated: a successful propose_batch leaves all workers empty right after
\* the drain, builds the batch of the current round over the union of the drained
\* maps, sets the cell to it with no signatures and only then broadcasts it.
ProposeBatchDrainsAllThenSets ==
    /\ []BroadcastOnlyAfterSet
    /\ [][ProposeBatchSteps /\ AllEmptyAfterDrain]_vars
\* C14 as amended: each worker is empty right after its own drain (a worker drained
\* earlier in the loop may hold new transmissions when the loop ends); the batch, the
\* cell and the broadcast are as stated.
ProposeBatchDrainsEachThenSets ==
    /\ []BroadcastOnlyAfterSet
    /\ [][ProposeBatchSteps]_vars
\* A batch over the transmissions of two workers is in the cell and was broadcast.
ProposedFromTwoWorkers ==
    /\ Len(workers) = 2
    /\ IsSome(proposed_batch)
    /\ Cardinality(Cell.batch.transmissions) = 2
    /\ EventsOfType("BatchPropose") # <<>>
    /\ EventsOfType("BatchPropose")[1].payload = Cell.batch

\* The BatchSignature the handler owes to the peer whose BatchPropose it holds.
SignatureFor(msg) ==
    [type |-> "BatchSignature", to |-> msg.peer_ip,
     payload |-> [batch_id |-> msg.batch.batch_id,
                  signature |-> [signer |-> "addrA", msg |-> msg.batch.batch_id]]]
\* The steps of the BatchPropose handler up to the signing: a batch that deserializes
\* is stored under its peer_ip, whatever its round, author and parents; one that
\* does not is dropped; nothing else stores a proposed batch or sends a
\* BatchSignature, and the handler leaves the proposal cell alone.
BatchProposeSteps ==
    /\ (pc["batch_propose"] = "deserialize" /\ pc'["batch_propose"] # "deserialize")
         => LET msg == Unwrap(local["batch_propose"].msg) IN
              /\ events' = events
              /\ IF msg.well_formed
                   THEN /\ proposed_batches' = proposed_batches \cup
                              {[peer_ip |-> msg.peer_ip, batch |-> msg.batch]}
                        /\ pc'["batch_propose"] = "sign"
                        /\ local'["batch_propose"].msg = Some(msg)
                   ELSE /\ proposed_batches' = proposed_batches
                        /\ pc'["batch_propose"] = "recv"
    /\ proposed_batches' # proposed_batches => pc["batch_propose"] = "deserialize"
    /\ EventsOfType("BatchSignature")' # EventsOfType("BatchSignature")
         => pc["batch_propose"] = "sign"
    /\ pc'["batch_propose"] # pc["batch_propose"] => proposed_batch' = proposed_batch
\* The signing step sends the BatchSignature.
SignatureSent ==
    (pc["batch_propose"] = "sign" /\ pc'["batch_propose"] # "sign")
      => events' = Append(events, SignatureFor(Unwrap(local["batch_propose"].msg)))
\* The signing step sends the BatchSignature or, when signing fails, nothing.
SignatureSentUnlessSigningFails ==
    (pc["batch_propose"] = "sign" /\ pc'["batch_propose"] # "sign")
      => \/ events' = Append(events, SignatureFor(Unwrap(local["batch_propose"].msg)))
         \/ events' = events

\* C15 as stated: a BatchPropose that deserializes is stored under its peer_ip and
\* then answered with exactly one BatchSignature to that peer, over the batch's id,
\* with no further validation; one that does not deserialize is neither stored nor
\* answered; the proposal cell is unchanged.
ProposeStoredThenSigned ==
    [][BatchProposeSteps /\ SignatureSent]_vars
\* C15 as amended: the BatchSignature is sent unless signing fails, and then the batch
\* stays stored and nothing is sent.
ProposeStoredThenSignedUnlessSigningFails ==
    [][BatchProposeSteps /\ SignatureSentUnlessSigningFails]_vars
\* A peer's batch of another round is stored and its signature was sent to the peer.
PeerBatchStoredAndSigned ==
    /\ pc["batch_propose"] = "recv"
    /\ \E p \in proposed_batches : p.peer_ip = "ipB" /\ p.batch.round # round
    /\ Len(EventsOfType("BatchSignature")) = 1
    /\ EventsOfType("BatchSignature")[1].to = "ipB"

\* C16: a proposal does not stay in the cell forever: one that never reaches quorum
\* expires and is cleared by the sealer, so that the proposer proposes again.
ExpiredProposalDiscarded ==
    \A b \in BatchIds :
        (IsSome(proposed_batch) /\ Cell.batch.batch_id = b)
          ~> (~IsSome(proposed_batch) \/ Cell.batch.batch_id # b)

\* C17: the batches the proposer wrote into the proposal cell carry pairwise
\* different rounds: at most one batch is authored per round.
OneBatchPerRound ==
    \A b1, b2 \in EverInCell :
        b1.batch_id # b2.batch_id => b1.round # b2.round

Held(option) == IF IsSome(option) THEN {Unwrap(option)} ELSE {}

\* C18: no drained transmission is dropped: what a drain removes from a worker is in
\* the proposer's map, what is in the map stays there until it is in the batch built
\* over it, and that batch is the one placed in the proposal cell, also when
\* Batch::new fails and the proposer retries.
DrainedTransmissionsProposed ==
    [][/\ \A i \in 1..Len(workers) :
            (i <= Len(workers') /\ local'["proposer"].drained # local["proposer"].drained)
              => (workers[i].transmissions \ workers'[i].transmissions)
                   \subseteq (local'["proposer"].transmissions
                                \cup UNION {b.transmissions : b \in Held(local'["proposer"].batch)})
       /\ \A t \in local["proposer"].transmissions :
            \/ t \in local'["proposer"].transmissions
            \/ \E b \in Held(local'["proposer"].batch) : t \in b.transmissions
       /\ TaskStep("proposer", "set", "broadcast")
            => BatchOf(proposed_batch') = Held(local["proposer"].batch)]_vars

\* C19: from the snapshot that sets is_ready to the take, the cell holds the
\* snapshotted batch: no other task empties or replaces it, the take returns that
\* batch, and the unwrap never panics.
SealerTakeFindsSnapshot ==
    /\ [](/\ pc["sealer"] # "panicked"
          /\ pc["sealer"] = "take"
               => /\ local["sealer"].is_ready
                  /\ IsSome(local["sealer"].snapshot)
                  /\ IsSome(proposed_batch)
                  /\ Cell.batch = Unwrap(local["sealer"].snapshot).batch)
    /\ [][pc["sealer"] = "take"
            => /\ pc'["sealer"] \in {"take", "store"}
               /\ pc'["sealer"] = "store"
                    => Unwrap(local'["sealer"].sealed_batch).batch =
                         Unwrap(local["sealer"].snapshot).batch]_vars
\* The sealer has taken the batch its snapshot saw while the BatchSignature handler
\* was about to write to the cell.
SealerTookSnapshottedBatch ==
    /\ pc["sealer"] = "store"
    /\ Unwrap(local["sealer"].sealed_batch).batch.batch_id = 1
    /\ Unwrap(local["sealer"].snapshot).batch.batch_id = 1
    /\ ~IsSome(proposed_batch)
    /\ pc["batch_signature"] = "append"

IsPrefix(s, t) == Len(s) <= Len(t) /\ SubSeq(t, 1, Len(s)) = s

\* C20: no appended signature is lost: the handler's append puts the signature at the
\* end of the cell's list, the list of a batch in the cell only grows, the take seals
\* the batch with the whole list that is in the cell at that moment (also what was
\* appended after the sealer's snapshot), and that list is the one stored and
\* broadcast in the certificate.
AppendedSignaturesSealed ==
    [][/\ (TaskStep("batch_signature", "append", "recv") /\ IsSome(proposed_batch))
            => /\ IsSome(proposed_batch')
               /\ Cell'.batch = Cell.batch
               /\ Cell'.signatures =
                    Append(Cell.signatures,
                           Unwrap(local["batch_signature"].msg).signature)
       /\ (IsSome(proposed_batch) /\ IsSome(proposed_batch') /\ Cell'.batch = Cell.batch)
            => IsPrefix(Cell.signatures, Cell'.signatures)
       /\ (IsSome(proposed_batch) /\ ~IsSome(proposed_batch'))
            => /\ TaskStep("sealer", "take", "store")
               /\ Unwrap(local'["sealer"].sealed_batch).batch = Cell.batch
               /\ Unwrap(local'["sealer"].sealed_batch).signatures = Cell.signatures
       /\ pc["sealer"] \in {"store", "broadcast"}
            => \/ local'["sealer"].sealed_batch = local["sealer"].sealed_batch
               \/ TaskStep("sealer", "broadcast", "sleep")
       /\ TaskStep("sealer", "store", "broadcast")
            => /\ Len(sealed_from_primary') = Len(sealed_from_primary) + 1
               /\ sealed_from_primary'[Len(sealed_from_primary')].sealed_batch =
                    Unwrap(local["sealer"].sealed_batch)
       /\ TaskStep("sealer", "broadcast", "sleep")
            => /\ Len(events') = Len(events) + 1
               /\ events'[Len(events')].type = "BatchSealed"
               /\ events'[Len(events')].payload.batch_id =
                    Unwrap(local["sealer"].sealed_batch).batch.batch_id
               /\ events'[Len(events')].payload.signatures =
                    Unwrap(local["sealer"].sealed_batch).signatures]_vars
\* A signature was appended after the sealer's snapshot (which saw one signature) and
\* is in the sealed batch the sealer has stored.
SignatureAppendedAfterSnapshotSealed ==
    /\ pc["sealer"] = "broadcast"
    /\ Len(Unwrap(local["sealer"].snapshot).signatures) = 1
    /\ Len(sealed_from_primary) = 1
    /\ Len(sealed_from_primary[1].sealed_batch.signatures) = 2
====
